---- MODULE Spec2Model ----
(***************************************************************************)
(* Model of service/vector_database.py: the VectorService contract, its    *)
(* four adapters (Pinecone, Qdrant, Weaviate, Astra), the Cohere reranker  *)
(* and the get_vector_service factory.                                     *)
(*                                                                         *)
(* The backends themselves are third-party services.  They are modelled as *)
(* one in-memory store (id -> stored object) with the operations the       *)
(* adapters call: upsert / insert, nearest-neighbour search with a limit   *)
(* and an optional metadata filter, delete by ids and delete by filter.    *)
(* Everything the adapters do around those calls is translated from the    *)
(* source.                                                                 *)
(***************************************************************************)
EXTENDS Integers, Sequences, FiniteSets, TLC

VARIABLES
    service,    \* the adapter instance held by the caller (or NoService)
    indexes,    \* names of the indexes / collections that exist at the backend
    store,      \* backend content of the index: id -> [vector, fields]
    upserted,   \* history: id -> the chunk as it was handed to upsert
    ret,        \* outcome of the last contract operation
    calls,      \* backend / ranker calls issued by the last operation, in order
    pc,         \* position of an Astra upsert that is in progress
    bulk        \* number of bulk upserts made so far (cap specification)

vars == <<service, indexes, store, upserted, ret, calls, pc, bulk>>

----------------------------------------------------------------------------
\* Bounds of the model.

MaxId == 2              \* chunk ids of the store specification are 1..MaxId
MaxChunks == 2          \* longest chunk list handed to one upsert (Spec)
MaxBatchInput == 12     \* longest chunk list of the batching specification
MaxCandidates == 3      \* longest candidate list handed to rerank
MaxBulkCalls == 2       \* bulk upserts per behaviour of the cap specification

\* Program constants.

DeleteTopK == 1000      \* PineconeVectorService.delete: top_k=1000
AstraBatchSize == 5     \* AstraService.upsert: range(0, len(documents), 5)
DefaultTopK == 25       \* query(..., top_k: int = 25)
DefaultTopN == 5        \* rerank(..., top_n: int = 5)

----------------------------------------------------------------------------
\* Python values.  Strings stand for themselves; None and the int 3 are
\* values of their own, so that str() is a real conversion.

None == "<None>"
Int3 == "int:3"

Str(x) == CASE x = None -> "None" [] x = Int3 -> "3" [] OTHER -> x

EmptyDict == [k \in {} |-> None]

DictGet(d, k, default) == IF k \in DOMAIN d THEN d[k] ELSE default

\* {**base, **extra}: the keys of extra win.
DictMerge(base, extra) ==
    [k \in (DOMAIN base) \cup (DOMAIN extra) |->
        IF k \in DOMAIN extra THEN extra[k] ELSE base[k]]

Min(a, b) == IF a <= b THEN a ELSE b

Reverse(s) == [i \in 1..Len(s) |-> s[Len(s) + 1 - i]]

\* dict(credentials.config): the mapping built from the (key, value) pairs
\* the configuration yields, a later pair replacing an earlier one.
RECURSIVE DictOfPairs(_)
DictOfPairs(pairs) ==
    IF pairs = <<>> THEN EmptyDict
    ELSE LET n == Len(pairs)
         IN  DictMerge(DictOfPairs(SubSeq(pairs, 1, n - 1)),
                       pairs[n][1] :> pairs[n][2])

----------------------------------------------------------------------------
\* The encoder collaborator: text -> vector of the index's dimension.

Encode(text) == IF text = "a" THEN <<1, 0>> ELSE <<0, 1>>

\* VectorService._generate_vectors: encoder([input]), a list of one vector.
GenerateVectors(input) == <<Encode(input)>>

\* encoder.dimension: the length of the vectors the encoder produces.
Dimension == Len(Encode("a"))

ZeroVector(dimension) == [i \in 1..dimension |-> 0]

\* BaseDocumentChunk(...) as the adapters build it; a field the adapter does
\* not pass keeps the constructor's default.
DocumentChunk(id, document_id, content, doc_url, page_number, metadata, emb) ==
    [id |-> id, document_id |-> document_id, content |-> content,
     doc_url |-> doc_url, page_number |-> page_number,
     metadata |-> metadata, dense_embedding |-> emb]

----------------------------------------------------------------------------
\* The backend (third party), as the adapters use it.

RECURSIVE Dot(_, _)
Dot(a, b) ==
    IF a = <<>> \/ b = <<>> THEN 0
    ELSE a[1] * b[1] + Dot(Tail(a), Tail(b))

\* Upper end of the id space, for the search's ordering only.
IdLimit == 4096

\* The largest element of a set of ids in 1..IdLimit (0 for the empty set),
\* by bisection.
RECURSIVE MaxBetween(_, _, _)
MaxBetween(S, lo, hi) ==
    IF lo >= hi THEN lo
    ELSE LET mid == (lo + hi) \div 2
         IN  IF \E x \in S : x > mid
             THEN MaxBetween(S, mid + 1, hi)
             ELSE MaxBetween(S, lo, mid)

MaxOf(S) == IF S = {} THEN 0 ELSE MaxBetween(S, 1, IdLimit)

\* The ids of S in ascending order.
AscSeq(S) ==
    IF S = {} THEN <<>>
    ELSE SelectSeq([i \in 1..MaxOf(S) |-> i], LAMBDA i : i \in S)

\* Ids of equal score come in an order the backend chooses.
TieOrders == {"asc", "desc"}

Ordered(S, tie) == IF tie = "asc" THEN AscSeq(S) ELSE Reverse(AscSeq(S))

\* Metadata filter of a backend call: <<key, value>>, or NoFilter.
NoFilter == <<>>

Matches(obj, filter) ==
    \/ filter = NoFilter
    \/ /\ filter[1] \in DOMAIN obj.fields
       /\ obj.fields[filter[1]] = filter[2]

\* Nearest-neighbour search: the ids of the objects passing the filter, by
\* descending similarity to vec, at most limit of them.
RECURSIVE ByScore(_, _, _, _, _)
ByScore(st, cand, vec, tie, s) ==
    IF s < 0 THEN <<>>
    ELSE Ordered({id \in cand : Dot(vec, st[id].vector) = s}, tie)
            \o ByScore(st, cand, vec, tie, s - 1)

BackendSearch(st, vec, limit, filter, tie) ==
    LET cand == {id \in DOMAIN st : Matches(st[id], filter)}
        all  == ByScore(st, cand, vec, tie, Len(vec))
    IN  SubSeq(all, 1, Min(limit, Len(all)))

\* Upsert of a list of objects: replace semantics by id, the last object of
\* the list with an id winning.  (f @@ g keeps f where both are defined.)
RECURSIVE ObjectsById(_, _, _)
ObjectsById(objs, lo, hi) ==
    IF lo = hi
    THEN objs[lo].id :> [vector |-> objs[lo].vector, fields |-> objs[lo].fields]
    ELSE LET mid == (lo + hi) \div 2
         IN  ObjectsById(objs, mid + 1, hi) @@ ObjectsById(objs, lo, mid)

BackendUpsert(st, objs) ==
    IF objs = <<>> THEN st ELSE ObjectsById(objs, 1, Len(objs)) @@ st

\* Insert of a list of documents: a document whose id is already stored is
\* not written.
BackendInsert(st, objs) ==
    LET fresh == SelectSeq(objs, LAMBDA o : o.id \notin DOMAIN st)
    IN  BackendUpsert(st, fresh)

BackendDeleteIds(st, ids) == [id \in (DOMAIN st) \ ids |-> st[id]]

BackendDeleteWhere(st, filter) ==
    BackendDeleteIds(st, {id \in DOMAIN st : Matches(st[id], filter)})

----------------------------------------------------------------------------
\* Outcome of one adapter method: the store it leaves, what it returns or
\* raises, the logger.error calls it made and the backend calls it issued.

Outcome(st, rtype, exc, num, chunks, logged, cs) ==
    [st |-> st, rtype |-> rtype, exc |-> exc, num |-> num,
     chunks |-> chunks, logged |-> logged, calls |-> cs]

Call(api, items) == [api |-> api, items |-> items]

IdsOf(objs) == [i \in DOMAIN objs |-> objs[i].id]

\* How a backend answers a query: well formed, without its top-level
\* envelope key, or not at all (the client raises).
Shapes == {"ok", "no_envelope", "unavailable"}

\* How a backend reports a property an object does not have: the key is
\* left out of the row, or it is there with a null value.
AbsentModes == {"omit", "null"}

----------------------------------------------------------------------------
\* PineconeVectorService

PineconeVector(chunk) ==
    [id |-> chunk.id,
     vector |-> chunk.dense_embedding,
     fields |-> DictMerge(("document_id" :> chunk.document_id)
                            @@ ("content" :> chunk.content)
                            @@ ("doc_url" :> chunk.doc_url),
                          chunk.metadata)]

PineconeUpsert(st, chunks) ==
    LET vectors_to_upsert == [i \in DOMAIN chunks |-> PineconeVector(chunks[i])]
    IN  Outcome(BackendUpsert(st, vectors_to_upsert), "NoneType", "", 0, <<>>, 0,
                <<Call("upsert", IdsOf(vectors_to_upsert))>>)

\* index.query(...): the response, a mapping with the key "matches".
PineconeIndexQuery(st, vec, top_k, filter, shape, tie) ==
    IF shape = "ok"
    THEN LET ids == BackendSearch(st, vec, top_k, filter, tie)
         IN  [matches |-> [i \in DOMAIN ids |->
                              [id |-> ids[i], metadata |-> st[ids[i]].fields]]]
    ELSE [message |-> <<>>]

PineconeChunk(match) ==
    DocumentChunk(match.id,
                  DictGet(match.metadata, "document_id", ""),
                  match.metadata["content"],
                  DictGet(match.metadata, "source", ""),
                  Str(DictGet(match.metadata, "page_number", "")),
                  [key \in (DOMAIN match.metadata) \ {"content", "file_url"} |->
                      match.metadata[key]],
                  <<>>)

\* Mutant: a response without "matches" is read as one with no matches.
PineconeQueryLenient(st, input, top_k, shape, absent, tie) ==
    LET query_vectors == GenerateVectors(input)
        cs == <<Call("query", <<>>)>>
    IN  IF shape = "unavailable"
        THEN Outcome(st, "exception", "BackendError", 0, <<>>, 0, cs)
        ELSE LET results == PineconeIndexQuery(st, query_vectors[1], top_k,
                                               NoFilter, shape, tie)
             IN  IF "matches" \notin DOMAIN results
                 THEN Outcome(st, "list", "", 0, <<>>, 0, cs)
                 ELSE Outcome(st, "list", "", 0,
                              [i \in DOMAIN results.matches |->
                                  PineconeChunk(results.matches[i])],
                              0, cs)

PineconeQuery(st, input, top_k, shape, absent, tie) ==
    LET query_vectors == GenerateVectors(input)
        cs == <<Call("query", <<>>)>>
    IN  IF shape = "unavailable"
        THEN Outcome(st, "exception", "BackendError", 0, <<>>, 0, cs)
        ELSE LET results == PineconeIndexQuery(st, query_vectors[1], top_k,
                                               NoFilter, shape, tie)
             IN  IF "matches" \notin DOMAIN results
                 THEN Outcome(st, "exception", "KeyError", 0, <<>>, 0, cs)
                 ELSE Outcome(st, "list", "", 0,
                              [i \in DOMAIN results.matches |->
                                  PineconeChunk(results.matches[i])],
                              0, cs)

\* Mutant: the fetch asks for every match instead of the first 1000.
PineconeDeleteUncapped(st, file_url, dimension, tie) ==
    LET query_response ==
            PineconeIndexQuery(st, ZeroVector(dimension), Cardinality(DOMAIN st),
                               <<"source", file_url>>, "ok", tie)
        chunks == query_response.matches
        ids == {chunks[i].id : i \in DOMAIN chunks}
    IN  Outcome(BackendDeleteIds(st, ids), "DeleteResponse", "",
                Len(chunks), <<>>, 0, <<Call("query", <<>>)>>)

PineconeDelete(st, file_url, dimension, tie) ==
    LET query_response ==
            PineconeIndexQuery(st, ZeroVector(dimension), DeleteTopK,
                               <<"source", file_url>>, "ok", tie)
        chunks == query_response.matches
        ids == {chunks[i].id : i \in DOMAIN chunks}
    IN  IF chunks # <<>>
        THEN Outcome(BackendDeleteIds(st, ids), "DeleteResponse", "",
                     Len(chunks), <<>>, 0,
                     <<Call("query", <<>>), Call("delete", IdsOf(chunks))>>)
        ELSE Outcome(st, "DeleteResponse", "", Len(chunks), <<>>, 0,
                     <<Call("query", <<>>)>>)

----------------------------------------------------------------------------
\* QdrantService

QdrantPoint(chunk) ==
    [id |-> chunk.id,
     vector |-> chunk.dense_embedding,
     fields |-> DictMerge(("document_id" :> chunk.document_id)
                            @@ ("content" :> chunk.content)
                            @@ ("doc_url" :> chunk.doc_url),
                          chunk.metadata)]

QdrantUpsert(st, chunks) ==
    LET points == [i \in DOMAIN chunks |-> QdrantPoint(chunks[i])]
    IN  Outcome(BackendUpsert(st, points), "NoneType", "", 0, <<>>, 0,
                <<Call("upsert", IdsOf(points))>>)

QdrantChunk(result) ==
    DocumentChunk(result.id,
                  DictGet(result.payload, "document_id", None),
                  DictGet(result.payload, "content", None),
                  DictGet(result.payload, "doc_url", None),
                  DictGet(result.payload, "page_number", None),
                  result.payload,
                  <<>>)

\* client.search returns the list of scored points; a response that is not
\* the expected envelope makes the client raise.
QdrantQuery(st, input, top_k, shape, absent, tie) ==
    LET vectors == GenerateVectors(input)
        cs == <<Call("search", <<>>)>>
    IN  IF shape # "ok"
        THEN Outcome(st, "exception", "BackendError", 0, <<>>, 0, cs)
        ELSE LET ids == BackendSearch(st, vectors[1], top_k, NoFilter, tie)
                 search_result == [i \in DOMAIN ids |->
                                     [id |-> ids[i], payload |-> st[ids[i]].fields]]
             IN  Outcome(st, "list", "", 0,
                         [i \in DOMAIN search_result |-> QdrantChunk(search_result[i])],
                         0, cs)

QdrantDelete(st, file_url, dimension, tie) ==
    Outcome(BackendDeleteWhere(st, <<"file_url", file_url>>), "NoneType", "",
            0, <<>>, 0, <<Call("delete", <<>>)>>)

----------------------------------------------------------------------------
\* WeaviateService

WeaviateObject(chunk) ==
    [id |-> chunk.id,
     vector |-> chunk.dense_embedding,
     fields |-> DictMerge(("text" :> chunk.content)
                            @@ ("document_id" :> chunk.document_id)
                            @@ ("doc_url" :> chunk.doc_url),
                          chunk.metadata)]

WeaviateUpsert(st, chunks) ==
    LET objects == [i \in DOMAIN chunks |-> WeaviateObject(chunks[i])]
    IN  Outcome(BackendUpsert(st, objects), "NoneType", "", 0, <<>>, 0,
                <<Call("batch", IdsOf(objects))>>)

WeaviateProperties == {"document_id", "text", "doc_url", "page_number"}

\* One row of the GraphQL answer: the requested properties of an object.
WeaviateRow(fields, absent) ==
    [k \in (IF absent = "null" THEN WeaviateProperties
            ELSE WeaviateProperties \cap DOMAIN fields) |->
        DictGet(fields, k, None)]

\* client.query.get(...).with_near_vector(...).with_limit(...).do()
WeaviateDo(st, vec, top_k, shape, absent, tie) ==
    IF shape = "ok"
    THEN LET ids == BackendSearch(st, vec, top_k, NoFilter, tie)
         IN  [data |-> [Get |-> [i \in DOMAIN ids |->
                                    WeaviateRow(st[ids[i]].fields, absent)]]]
    ELSE [errors |-> <<>>]

\* str(uuid.uuid4()): a fresh random id, never the id of a stored chunk.
Uuid4(i) == 0 - i

WeaviateChunk(result, i) ==
    DocumentChunk(Uuid4(i), result["document_id"], result["text"],
                  result["doc_url"], Str(result["page_number"]),
                  EmptyDict, <<>>)

WeaviateQuery(st, input, top_k, shape, absent, tie) ==
    LET vectors == GenerateVectors(input)
        cs == <<Call("query", <<>>)>>
    IN  IF shape = "unavailable"
        THEN Outcome(st, "exception", "Exception", 0, <<>>, 1, cs)
        ELSE LET response == WeaviateDo(st, vectors[1], top_k, shape, absent, tie)
             IN  IF "data" \notin DOMAIN response
                 THEN Outcome(st, "list", "", 0, <<>>, 1, cs)
                 ELSE LET result_data == response.data.Get
                      IN  IF \E i \in DOMAIN result_data :
                                 ~(WeaviateProperties \subseteq DOMAIN result_data[i])
                          THEN Outcome(st, "list", "", 0, <<>>, 1, cs)
                          ELSE Outcome(st, "list", "", 0,
                                       [i \in DOMAIN result_data |->
                                           WeaviateChunk(result_data[i], i)],
                                       0, cs)

\* batch.delete_objects(...): the backend's report of the batch delete.
WeaviateDeleteObjects(st, filter) ==
    LET n == Cardinality({id \in DOMAIN st : Matches(st[id], filter)})
    IN  [results |-> [matches |-> n, successful |-> n, failed |-> 0]]

WeaviateDelete(st, file_url, dimension, tie) ==
    LET result == WeaviateDeleteObjects(st, <<"doc_url", file_url>>)
        num_of_deleted_chunks ==
            IF "results" \in DOMAIN result
            THEN DictGet(result.results, "successful", 0)
            ELSE 0
    IN  Outcome(BackendDeleteWhere(st, <<"doc_url", file_url>>),
                "DeleteResponse", "", num_of_deleted_chunks, <<>>, 0,
                <<Call("delete_objects", <<>>)>>)

----------------------------------------------------------------------------
\* AstraService

AstraDocument(chunk) ==
    [id |-> chunk.id,
     vector |-> chunk.dense_embedding,
     fields |-> DictMerge("text" :> chunk.content, chunk.metadata)]

\* Mutant: the slice stops one document early (documents[i : i + 4]).
AstraSliceShort(documents, i) ==
    SubSeq(documents, i + 1, Min(i + AstraBatchSize - 1, Len(documents)))

\* documents[i : i + 5], i counted from 0.
AstraSlice(documents, i) ==
    SubSeq(documents, i + 1, Min(i + AstraBatchSize, Len(documents)))

\* for i in range(0, len(documents), 5): insert_many(documents[i : i + 5])
RECURSIVE AstraInsertFrom(_, _, _, _)
AstraInsertFrom(st, documents, i, cs) ==
    IF i >= Len(documents) THEN [st |-> st, calls |-> cs]
    ELSE AstraInsertFrom(BackendInsert(st, AstraSlice(documents, i)),
                         documents, i + AstraBatchSize,
                         Append(cs, Call("insert_many",
                                         IdsOf(AstraSlice(documents, i)))))

AstraUpsert(st, chunks) ==
    LET documents == [i \in DOMAIN chunks |-> AstraDocument(chunks[i])]
        done == AstraInsertFrom(st, documents, 0, <<>>)
    IN  Outcome(done.st, "NoneType", "", 0, <<>>, 0, done.calls)

AstraFields == {"text", "page_number", "source", "document_id"}

AstraChunk(result) ==
    DocumentChunk(result.id,
                  DictGet(result.doc, "document_id", None),
                  DictGet(result.doc, "text", None),
                  DictGet(result.doc, "source", None),
                  DictGet(result.doc, "page_number", None),
                  EmptyDict, <<>>)

\* collection.vector_find returns the list of documents, projected on the
\* requested fields; a response without its envelope makes the client raise.
AstraQuery(st, input, top_k, shape, absent, tie) ==
    LET vectors == GenerateVectors(input)
        cs == <<Call("vector_find", <<>>)>>
    IN  IF shape # "ok"
        THEN Outcome(st, "exception", "BackendError", 0, <<>>, 0, cs)
        ELSE LET ids == BackendSearch(st, vectors[1], top_k, NoFilter, tie)
                 results == [i \in DOMAIN ids |->
                               [id |-> ids[i],
                                doc |-> [k \in AstraFields \cap DOMAIN st[ids[i]].fields |->
                                            st[ids[i]].fields[k]]]]
             IN  Outcome(st, "list", "", 0,
                         [i \in DOMAIN results |-> AstraChunk(results[i])], 0, cs)

AstraDelete(st, file_url, dimension, tie) ==
    Outcome(BackendDeleteWhere(st, <<"file_url", file_url>>), "NoneType", "",
            0, <<>>, 0, <<Call("delete_many", <<>>)>>)

----------------------------------------------------------------------------
\* VectorService.rerank

\* Mutant: the seen set is never added to, so nothing is dropped.
DeduplicateNothingSeen(documents, seen) ==
    SelectSeq(documents, LAMBDA doc : doc.content \notin seen)

\* deduplicated_documents: the documents whose content was not seen before,
\* in order.
RECURSIVE Deduplicate(_, _)
Deduplicate(documents, seen) ==
    IF documents = <<>> THEN <<>>
    ELSE LET doc == Head(documents)
         IN  IF doc.content \notin seen
             THEN <<doc>> \o Deduplicate(Tail(documents), seen \cup {doc.content})
             ELSE Deduplicate(Tail(documents), seen)

DocsText(deduplicated_documents) ==
    [i \in DOMAIN deduplicated_documents |-> deduplicated_documents[i].content]

\* Mutant: the failure is logged and an empty list returned.
RerankSwallowed(cs) == Outcome(<<>>, "list", "", 0, <<>>, 1, cs)

\* The except branch: logger.error(...), then raise Exception(...).
RerankFailed(cs) == Outcome(<<>>, "exception", "Exception", 0, <<>>, 1, cs)

\* ranker: "fail" when cohere_client.rerank raises, else "ok" with ranked,
\* the indices (from 0) of the results it returns.
Rerank(documents, top_n, api_key, ranker, ranked) ==
    IF api_key = ""
    THEN Outcome(<<>>, "exception", "ValueError", 0, <<>>, 0, <<>>)
    ELSE LET deduplicated_documents == Deduplicate(documents, {})
             docs_text == DocsText(deduplicated_documents)
             cs == <<Call("rerank", docs_text)>>
         IN  IF ranker = "fail"
             THEN RerankFailed(cs)
             ELSE IF \E j \in DOMAIN ranked :
                        ranked[j] >= Len(deduplicated_documents)
                  THEN RerankFailed(cs)
                  ELSE Outcome(<<>>, "list", "", 0,
                               [j \in DOMAIN ranked |->
                                   deduplicated_documents[ranked[j] + 1]],
                               0, cs)

----------------------------------------------------------------------------
\* get_vector_service and the adapters' constructors

Adapters == {"pinecone", "qdrant", "weaviate", "astra"}

NoService == [type |-> "", index_name |-> "", dimension |-> 0,
              credentials |-> EmptyDict]

\* The credentials an adapter's constructor reads.
RequiredCredentials(type) ==
    IF type = "pinecone" THEN {"api_key"} ELSE {"api_key", "host"}

\* service(index_name=..., dimension=..., credentials=..., encoder=...): the
\* client is built from the credentials, the backend is asked whether the index
\* exists, and the index is created when it does not.
Construct(type, index_name, dimension, credentials, existing) ==
    IF ~(RequiredCredentials(type) \subseteq DOMAIN credentials)
    THEN [raised |-> "KeyError", service |-> NoService, indexes |-> existing,
          calls |-> <<Call("__init__", <<type>>)>>]
    ELSE [raised |-> "",
          service |-> [type |-> type, index_name |-> index_name,
                       dimension |-> dimension, credentials |-> credentials],
          indexes |-> existing \cup {<<type, index_name>>},
          calls |-> <<Call("__init__", <<type>>), Call("list_indexes", <<type>>)>>
                    \o (IF <<type, index_name>> \in existing THEN <<>>
                        ELSE <<Call("create_index", <<type>>)>>)]

\* Mutant: an unknown kind falls back to the first adapter.
ServiceForWithDefault(type_value) ==
    IF type_value \in Adapters THEN type_value ELSE "pinecone"

\* services.get(credentials.type.value)
ServiceFor(type_value) == IF type_value \in Adapters THEN type_value ELSE None

GetVectorService(index_name, type_value, config, encoder_dimension, existing) ==
    LET svc == ServiceFor(type_value)
    IN  IF svc = None
        THEN [raised |-> "ValueError", service |-> NoService,
              indexes |-> existing, calls |-> <<>>]
        ELSE Construct(svc, index_name, encoder_dimension,
                       DictOfPairs(config), existing)

----------------------------------------------------------------------------
\* Dispatch on the adapter the service is.

UpsertOf(type, st, chunks) ==
    CASE type = "pinecone" -> PineconeUpsert(st, chunks)
      [] type = "qdrant"   -> QdrantUpsert(st, chunks)
      [] type = "weaviate" -> WeaviateUpsert(st, chunks)
      [] type = "astra"    -> AstraUpsert(st, chunks)

QueryOf(type, st, input, top_k, shape, absent, tie) ==
    CASE type = "pinecone" -> PineconeQuery(st, input, top_k, shape, absent, tie)
      [] type = "qdrant"   -> QdrantQuery(st, input, top_k, shape, absent, tie)
      [] type = "weaviate" -> WeaviateQuery(st, input, top_k, shape, absent, tie)
      [] type = "astra"    -> AstraQuery(st, input, top_k, shape, absent, tie)

DeleteOf(type, st, file_url, dimension, tie) ==
    CASE type = "pinecone" -> PineconeDelete(st, file_url, dimension, tie)
      [] type = "qdrant"   -> QdrantDelete(st, file_url, dimension, tie)
      [] type = "weaviate" -> WeaviateDelete(st, file_url, dimension, tie)
      [] type = "astra"    -> AstraDelete(st, file_url, dimension, tie)

----------------------------------------------------------------------------
\* Inputs.

Contents == {"a", "b"}
Urls == {"u1", "u2"}

Other(c) == IF c = "a" THEN "b" ELSE "a"

\* Metadata as ingestion attaches it: none, the document's source, a page.
MdSource == ("source" :> "u1") @@ ("file_url" :> "u1")
MdPage == "page_number" :> Int3

\* The documents chunks come from: a doc_url and the metadata of its chunks.
\* One document carries its own url as source, one names another source, one
\* has no metadata, one has a page number only.
Documents ==
    {[doc_url |-> "u1", metadata |-> MdSource],
     [doc_url |-> "u2", metadata |-> MdSource],
     [doc_url |-> "u1", metadata |-> EmptyDict],
     [doc_url |-> "u2", metadata |-> MdPage]}

\* A chunk as ingestion hands it to upsert: its embedding is the encoder's
\* output for its content.
Chunk(id, content, doc_url, metadata) ==
    DocumentChunk(id, "d1", content, doc_url, None, metadata, Encode(content))

\* The chunks of one document: consecutive ids, one doc_url, one metadata.
ChunkList(first, n, c, d) ==
    [i \in 1..n |-> Chunk(first + i - 1, IF i % 2 = 1 THEN c ELSE Other(c),
                          d.doc_url, d.metadata)]

NoRet == [op |-> "", args |-> <<>>, rtype |-> "", exc |-> "", num |-> 0,
          chunks |-> <<>>, logged |-> 0]

Ret(op, args, out) ==
    [op |-> op, args |-> args, rtype |-> out.rtype, exc |-> out.exc,
     num |-> out.num, chunks |-> out.chunks, logged |-> out.logged]

Idle == [state |-> "idle", chunks |-> <<>>, i |-> 0]

ServiceOf(type) ==
    [type |-> type, index_name |-> "docs", dimension |-> Dimension,
     credentials |-> ("api_key" :> "k") @@ ("host" :> "h")]

----------------------------------------------------------------------------
\* The contract operations on the service.

\* id -> the chunk of the list with that id (the last one, if several).
RECURSIVE ChunksById(_, _, _)
ChunksById(chunks, lo, hi) ==
    IF lo = hi THEN chunks[lo].id :> chunks[lo]
    ELSE LET mid == (lo + hi) \div 2
         IN  ChunksById(chunks, mid + 1, hi) @@ ChunksById(chunks, lo, mid)

\* upsert(chunks), and the history of what was upserted under each stored id.
DoUpsert(chunks) ==
    \E out \in {UpsertOf(service.type, store, chunks)},
       given \in {IF chunks = <<>> THEN upserted
                  ELSE ChunksById(chunks, 1, Len(chunks)) @@ upserted} :
        /\ store' = out.st
        /\ upserted' = [id \in DOMAIN out.st |-> given[id]]
        /\ ret' = Ret("upsert", [n |-> Len(chunks)], out)
        /\ calls' = out.calls

Upsert ==
    \E first \in 1..MaxId, n \in 1..MaxChunks, c \in Contents, d \in Documents :
        /\ first + n - 1 <= MaxId
        \* insert_many does not replace: Astra is handed ids it does not hold
        /\ service.type = "astra" =>
              \A id \in first..(first + n - 1) : id \notin DOMAIN store
        /\ DoUpsert(ChunkList(first, n, c, d))
        /\ UNCHANGED <<service, indexes, pc, bulk>>

Query ==
    \E input \in Contents, shape \in Shapes, absent \in AbsentModes,
       tie \in TieOrders :
        /\ service.type # "weaviate" => absent = "omit"
        /\ \E out \in {QueryOf(service.type, store, input, DefaultTopK, shape,
                              absent, tie)} :
               /\ ret' = Ret("query", [input |-> input, shape |-> shape,
                                       absent |-> absent], out)
               /\ calls' = out.calls
        /\ UNCHANGED <<service, indexes, store, upserted, pc, bulk>>

Delete ==
    \E file_url \in Urls, tie \in TieOrders :
        \E out \in {DeleteOf(service.type, store, file_url, service.dimension, tie)} :
            /\ store' = out.st
            /\ upserted' = [id \in DOMAIN out.st |-> upserted[id]]
            /\ ret' = Ret("delete", [file_url |-> file_url], out)
            /\ calls' = out.calls
            /\ UNCHANGED <<service, indexes, pc, bulk>>

Init ==
    /\ service \in {ServiceOf(t) : t \in Adapters}
    /\ indexes = {<<service.type, service.index_name>>}
    /\ store = <<>>
    /\ upserted = <<>>
    /\ ret = NoRet
    /\ calls = <<>>
    /\ pc = Idle
    /\ bulk = 0

Next == Upsert \/ Query \/ Delete

Spec == Init /\ [][Next]_vars

----------------------------------------------------------------------------
\* The fetch-then-delete cap: a Pinecone index filled by large upserts.

BulkSizes == {1, 500, 1000}

\* The chunks of one large document, ingested with its url as source.
BulkChunks(first, n, u) ==
    [i \in 1..n |-> Chunk(first + i - 1, "a", u, "source" :> u)]

BulkUpsert ==
    \E n \in BulkSizes, u \in Urls, first \in {MaxOf(DOMAIN store) + 1} :
        /\ bulk < MaxBulkCalls
        /\ DoUpsert(BulkChunks(first, n, u))
        /\ bulk' = bulk + 1
        /\ UNCHANGED <<service, indexes, pc>>

InitCap ==
    /\ service = ServiceOf("pinecone")
    /\ indexes = {<<service.type, service.index_name>>}
    /\ store = <<>>
    /\ upserted = <<>>
    /\ ret = NoRet
    /\ calls = <<>>
    /\ pc = Idle
    /\ bulk = 0

NextCap == BulkUpsert \/ Delete

SpecCap == InitCap /\ [][NextCap]_vars

----------------------------------------------------------------------------
\* AstraService.upsert, one backend round trip at a time: the call of
\* insert_many and its return are separate steps.

AstraDocuments(chunks) == [i \in DOMAIN chunks |-> AstraDocument(chunks[i])]

AstraUpsertBegin ==
    \E n \in 0..MaxBatchInput, c \in Contents, d \in Documents :
        /\ pc.state = "idle"
        /\ pc' = [state |-> "loop", chunks |-> ChunkList(1, n, c, d), i |-> 0]
        /\ calls' = <<>>
        /\ UNCHANGED <<service, indexes, store, upserted, ret, bulk>>

AstraInsertCall ==
    /\ pc.state = "loop"
    /\ pc.i < Len(pc.chunks)
    /\ calls' = Append(calls,
                       Call("insert_many",
                            IdsOf(AstraSlice(AstraDocuments(pc.chunks), pc.i))))
    /\ pc' = [pc EXCEPT !.state = "waiting"]
    /\ UNCHANGED <<service, indexes, store, upserted, ret, bulk>>

AstraInsertReturn ==
    /\ pc.state = "waiting"
    /\ \E st \in {BackendInsert(store, AstraSlice(AstraDocuments(pc.chunks), pc.i))} :
          /\ store' = st
          /\ upserted' = [id \in DOMAIN st |->
                            (ChunksById(pc.chunks, 1, Len(pc.chunks)) @@ upserted)[id]]
    /\ pc' = [pc EXCEPT !.state = "loop", !.i = pc.i + AstraBatchSize]
    /\ UNCHANGED <<service, indexes, ret, calls, bulk>>

AstraUpsertReturn ==
    /\ pc.state = "loop"
    /\ pc.i >= Len(pc.chunks)
    /\ ret' = Ret("upsert", [n |-> Len(pc.chunks)],
                  Outcome(store, "NoneType", "", 0, <<>>, 0, calls))
    /\ pc' = [pc EXCEPT !.state = "done"]
    /\ UNCHANGED <<service, indexes, store, upserted, calls, bulk>>

InitBatch ==
    /\ service = ServiceOf("astra")
    /\ indexes = {<<service.type, service.index_name>>}
    /\ store = <<>>
    /\ upserted = <<>>
    /\ ret = NoRet
    /\ calls = <<>>
    /\ pc = Idle
    /\ bulk = 0

NextBatch ==
    AstraUpsertBegin \/ AstraInsertCall \/ AstraInsertReturn \/ AstraUpsertReturn

SpecBatch == InitBatch /\ [][NextBatch]_vars

----------------------------------------------------------------------------
\* rerank, called on the candidates a query returned.

CandidateContents == {"a", "b", "c"}

\* Candidate lists: the i-th candidate has id i and any of the contents.
CandidateLists ==
    UNION {{[i \in 1..n |-> Chunk(i, f[i], "u1", EmptyDict)] :
               f \in [1..n -> CandidateContents]} : n \in 0..MaxCandidates}

\* What the ranker may answer for m documents and top_n: min(top_n, m)
\* distinct indices, each in 0..m (m itself is out of range).
RankedLists(m, top_n) ==
    {r \in [1..Min(top_n, m) -> 0..m] :
        \A p, q \in DOMAIN r : p # q => r[p] # r[q]}

\* rerank keeps nothing between calls: a behaviour is one call of it.
DoRerank ==
    \E documents \in CandidateLists, top_n \in {1, DefaultTopN},
       api_key \in {"", "k"}, ranker \in {"ok", "fail"} :
        \E ranked \in (IF api_key = "" \/ ranker = "fail" THEN {<<>>}
                       ELSE RankedLists(Len(Deduplicate(documents, {})), top_n)) :
            /\ ret.op = ""
            /\ api_key = "" => ranker = "ok"
            /\ \E out \in {Rerank(documents, top_n, api_key, ranker, ranked)} :
                  /\ ret' = Ret("rerank",
                                [documents |-> documents, top_n |-> top_n,
                                 api_key |-> api_key, ranker |-> ranker,
                                 ranked |-> ranked], out)
                  /\ calls' = out.calls
            /\ UNCHANGED <<service, indexes, store, upserted, pc, bulk>>

InitRerank ==
    /\ service = ServiceOf("qdrant")
    /\ indexes = {<<service.type, service.index_name>>}
    /\ store = <<>>
    /\ upserted = <<>>
    /\ ret = NoRet
    /\ calls = <<>>
    /\ pc = Idle
    /\ bulk = 0

NextRerank == DoRerank

SpecRerank == InitRerank /\ [][NextRerank]_vars

----------------------------------------------------------------------------
\* The factory, called with any provider kind, configuration and encoder.

ProviderKinds == Adapters \cup {"milvus", ""}

\* credentials.config as the (key, value) pairs it yields.
Configs ==
    {<<>>,
     <<<<"api_key", "k">>>>,
     <<<<"host", "h">>>>,
     <<<<"api_key", "k">>, <<"host", "h">>>>,
     <<<<"host", "h2">>, <<"api_key", "k2">>, <<"region", "r">>>>}

EncoderDimensions == {2, 3}

GetService ==
    \E type_value \in ProviderKinds, config \in Configs,
       dimension \in EncoderDimensions :
        \E out \in {GetVectorService("docs", type_value, config, dimension, indexes)} :
            /\ service' = IF out.raised = "" THEN out.service ELSE service
            /\ indexes' = out.indexes
            /\ calls' = out.calls
            /\ ret' = [op |-> "get_vector_service",
                       args |-> [type |-> type_value, config |-> config,
                                 dimension |-> dimension],
                       rtype |-> IF out.raised = "" THEN "service" ELSE "exception",
                       exc |-> out.raised, num |-> 0, chunks |-> <<>>,
                       logged |-> 0]
            /\ UNCHANGED <<store, upserted, pc, bulk>>

InitFactory ==
    /\ service = NoService
    /\ indexes = {}
    /\ store = <<>>
    /\ upserted = <<>>
    /\ ret = NoRet
    /\ calls = <<>>
    /\ pc = Idle
    /\ bulk = 0

NextFactory == GetService

SpecFactory == InitFactory /\ [][NextFactory]_vars

----------------------------------------------------------------------------
\* Properties of the store operations, checked under Spec.

\* C1: for every adapter, after delete(u) returns no stored chunk that was
\* upserted with doc_url = u remains, and every stored chunk that was
\* upserted with another doc_url is still stored, unchanged.
C1_DeleteRemovesTheUrlOnly ==
    [][(ret'.op = "delete" /\ ret'.rtype # "exception") =>
          /\ \A id \in DOMAIN store' :
                upserted'[id].doc_url # ret'.args.file_url
          /\ \A id \in DOMAIN store :
                upserted[id].doc_url # ret'.args.file_url =>
                    id \in DOMAIN store' /\ store'[id] = store[id]]_vars

\* C2: for every adapter, delete(doc_url) returns a DeleteResult whose
\* deleted_count is the number of chunks the call removed from the backend,
\* and is 0 when no stored chunk has that doc_url.
C2_DeleteReportsRemoved ==
    [][ret'.op = "delete" =>
          /\ ret'.rtype = "DeleteResponse"
          /\ ret'.num >= 0
          /\ ret'.num = Cardinality((DOMAIN store) \ (DOMAIN store'))
          /\ (\A id \in DOMAIN store :
                 upserted[id].doc_url # ret'.args.file_url) => ret'.num = 0]_vars

\* The metadata of chunk c is intact in the returned chunk r.
MetadataIntact(c, r) ==
    \A k \in DOMAIN c.metadata :
        k \in DOMAIN r.metadata /\ r.metadata[k] = c.metadata[k]

\* C3: round trip, for every adapter: when a stored chunk c is the one chunk
\* whose embedding is the query's vector, a well-formed query returns as its
\* first result a chunk with c's id, document_id, content and doc_url and
\* with c's metadata intact.
C3_RoundTrip ==
    (ret.op = "query" /\ ret.args.shape = "ok") =>
        \A id \in DOMAIN store :
            LET c == upserted[id]
            IN  (/\ c.dense_embedding = Encode(ret.args.input)
                 /\ \A o \in (DOMAIN store) \ {id} :
                        upserted[o].dense_embedding # c.dense_embedding)
                =>  /\ ret.rtype = "list"
                    /\ ret.chunks # <<>>
                    /\ ret.chunks[1].id = c.id
                    /\ ret.chunks[1].document_id = c.document_id
                    /\ ret.chunks[1].content = c.content
                    /\ ret.chunks[1].doc_url = c.doc_url
                    /\ MetadataIntact(c, ret.chunks[1])

\* C6: a query response without its top-level envelope key makes the
\* Weaviate adapter return an empty list without raising, and makes every
\* other adapter raise.
C6_EnvelopeAsymmetry ==
    (ret.op = "query" /\ ret.args.shape = "no_envelope") =>
        IF service.type = "weaviate"
        THEN ret.rtype = "list" /\ ret.chunks = <<>>
        ELSE ret.rtype = "exception"

\* The Weaviate adapter has been queried on a non-empty index and got a
\* response without its envelope.
C6_Witness ==
    /\ ret.op = "query"
    /\ ret.args.shape = "no_envelope"
    /\ service.type = "weaviate"
    /\ store # <<>>
    /\ ret.rtype = "list"

\* A page number that is absent: None, or the empty default.
Absent(page_number) == page_number \in {None, ""}

\* C7: for every adapter, when a match of a well-formed response carries no
\* page number, query returns a chunk for every match (it neither raises nor
\* drops results), the chunks of the matches without a page number having
\* page_number absent.
C7_MissingPageNumber ==
    (/\ ret.op = "query"
     /\ ret.args.shape = "ok"
     /\ \E id \in DOMAIN store : "page_number" \notin DOMAIN store[id].fields)
    =>  /\ ret.rtype = "list"
        /\ Len(ret.chunks) = Cardinality(DOMAIN store)
        /\ Cardinality({i \in DOMAIN ret.chunks :
                            Absent(ret.chunks[i].page_number)})
             = Cardinality({id \in DOMAIN store :
                                "page_number" \notin DOMAIN store[id].fields})

----------------------------------------------------------------------------
\* Properties of the fetch-then-delete cap, checked under SpecCap.

\* The ids the delete's filter matches in a store.
FilterMatches(st, file_url) ==
    {id \in DOMAIN st : Matches(st[id], <<"source", file_url>>)}

\* C4: when M chunks match the filter of a Pinecone delete, the call removes
\* exactly min(M, 1000) of them and nothing else, reports
\* deleted_count = min(M, 1000), and leaves M - min(M, 1000) matching chunks.
C4_FetchThenDeleteBound ==
    [][(ret'.op = "delete" /\ service.type = "pinecone") =>
          LET matching == FilterMatches(store, ret'.args.file_url)
              M == Cardinality(matching)
              removed == (DOMAIN store) \ (DOMAIN store')
          IN  /\ DOMAIN store' \subseteq DOMAIN store
              /\ removed \subseteq matching
              /\ Cardinality(removed) = Min(M, 1000)
              /\ ret'.rtype = "DeleteResponse"
              /\ ret'.num = Min(M, 1000)
              /\ Cardinality(FilterMatches(store', ret'.args.file_url))
                    = M - Min(M, 1000)]_vars

\* A delete has met 1500 matching chunks: it reported 1000 and 500 remain.
C4_Witness ==
    /\ ret.op = "delete"
    /\ service.type = "pinecone"
    /\ ret.num = 1000
    /\ Cardinality(FilterMatches(store, ret.args.file_url)) = 500

----------------------------------------------------------------------------
\* Properties of the Astra batching, checked under SpecBatch.

\* C5: an Astra upsert of n chunks issues ceil(n/5) insert_many calls, one
\* after the other (when a call starts, the documents of every earlier call
\* are stored), the k-th call carrying the chunks 5(k-1)+1 .. min(5k, n) of
\* the input in order: every call but the last carries 5 chunks, the last
\* the remainder.
C5_SequentialBatches ==
    pc.state \in {"loop", "waiting", "done"} =>
        LET n == Len(pc.chunks)
            ids == IdsOf(pc.chunks)
            total == (n + 4) \div 5
        IN  /\ Len(calls) <= total
            /\ \A k \in DOMAIN calls :
                  /\ calls[k].api = "insert_many"
                  /\ calls[k].items = SubSeq(ids, 5 * (k - 1) + 1, Min(5 * k, n))
                  /\ k < total => Len(calls[k].items) = 5
                  /\ k = total => Len(calls[k].items) = n - 5 * (total - 1)
                  /\ k < Len(calls) =>
                        \A j \in DOMAIN calls[k].items :
                            calls[k].items[j] \in DOMAIN store
            /\ pc.state = "done" =>
                  /\ Len(calls) = total
                  /\ DOMAIN store = {ids[j] : j \in DOMAIN ids}

\* An upsert of 12 chunks has returned after calls of sizes 5, 5, 2.
C5_Witness ==
    /\ pc.state = "done"
    /\ Len(pc.chunks) = 12
    /\ Len(calls) = 3
    /\ Len(calls[1].items) = 5
    /\ Len(calls[2].items) = 5
    /\ Len(calls[3].items) = 2

----------------------------------------------------------------------------
\* Properties of the reranker, checked under SpecRerank.

ContentsOf(documents) == [i \in DOMAIN documents |-> documents[i].content]

\* The position of the first candidate with content c.
FirstIndex(documents, c) ==
    CHOOSE i \in DOMAIN documents :
        /\ documents[i].content = c
        /\ \A j \in 1..(i - 1) : documents[j].content # c

\* C8: the document list sent to the ranker holds each distinct content of
\* the candidates exactly once, ordered by first occurrence; the chunk
\* returned for a ranked index is the first candidate with that content;
\* for candidates with contents [a, b, a] the list sent is [a, b].
C8_RerankDedup ==
    (ret.op = "rerank" /\ calls # <<>>) =>
        LET documents == ret.args.documents
            sent == calls[1].items
        IN  /\ {sent[i] : i \in DOMAIN sent}
                  = {documents[i].content : i \in DOMAIN documents}
            /\ \A p, q \in DOMAIN sent :
                  p < q => /\ sent[p] # sent[q]
                           /\ FirstIndex(documents, sent[p])
                                < FirstIndex(documents, sent[q])
            /\ ContentsOf(documents) = <<"a", "b", "a">> => sent = <<"a", "b">>
            /\ ret.rtype = "list" =>
                  /\ Len(ret.chunks) = Len(ret.args.ranked)
                  /\ \A j \in DOMAIN ret.chunks :
                        ret.chunks[j] =
                            documents[FirstIndex(documents,
                                                 sent[ret.args.ranked[j] + 1])]

\* Candidates [a, b, a] were reranked: [a, b] was sent and chunks came back.
C8_Witness ==
    /\ ret.op = "rerank"
    /\ ContentsOf(ret.args.documents) = <<"a", "b", "a">>
    /\ calls = <<Call("rerank", <<"a", "b">>)>>
    /\ ret.rtype = "list"
    /\ Len(ret.chunks) = 2

\* C10: when the ranking call fails, rerank logs the error and raises; it
\* returns no result list, and it has called the ranker once only.
C10_RerankFailure ==
    (ret.op = "rerank" /\ ret.args.api_key # "" /\ ret.args.ranker = "fail") =>
        /\ ret.rtype = "exception"
        /\ ret.logged = 1
        /\ ret.chunks = <<>>
        /\ Len(calls) = 1
        /\ calls[1].api = "rerank"

\* The ranking call failed on a non-empty candidate list.
C10_Witness ==
    /\ ret.op = "rerank"
    /\ ret.args.ranker = "fail"
    /\ ret.args.documents # <<>>
    /\ ret.rtype = "exception"

----------------------------------------------------------------------------
\* Properties of the factory, checked under SpecFactory.

\* C9: for a supported provider kind get_vector_service returns (whenever
\* the credentials the adapter reads are configured) an instance of the
\* matching adapter, its dimension the encoder's and its credentials the
\* mapping of the configuration; for any other kind it raises at once,
\* before an adapter is constructed or a backend contacted.
C9_FactorySelection ==
    ret.op = "get_vector_service" =>
        IF ret.args.type \in {"pinecone", "qdrant", "weaviate", "astra"}
        THEN /\ ret.rtype = "service" =>
                  /\ service.type = ret.args.type
                  /\ service.dimension = ret.args.dimension
                  /\ DOMAIN service.credentials
                        = {ret.args.config[i][1] : i \in DOMAIN ret.args.config}
                  /\ \A i \in DOMAIN ret.args.config :
                        service.credentials[ret.args.config[i][1]]
                            = ret.args.config[i][2]
             /\ ({"api_key", "host"}
                    \subseteq {ret.args.config[i][1] : i \in DOMAIN ret.args.config})
                  => ret.rtype = "service"
        ELSE /\ ret.rtype = "exception"
             /\ ret.exc = "ValueError"
             /\ calls = <<>>

\* The factory returned a Weaviate adapter of dimension 3.
C9_Witness ==
    /\ ret.op = "get_vector_service"
    /\ ret.args.type = "weaviate"
    /\ ret.args.dimension = 3
    /\ ret.rtype = "service"
    /\ service.type = "weaviate"

====
